---- MODULE Spec2Model ----
(***************************************************************************)
(* A model of the EGP analysis tools of SASMigration:                      *)
(*   src/egp_comprehensive_analysis.py  (the batch tool)                   *)
(*   src/egp_analysis_tool.py           (the single-archive tool)          *)
(* Text is a sequence of one-character strings; the regular expressions    *)
(* of the source are matched character by character.                       *)
(***************************************************************************)
EXTENDS Integers, Sequences, FiniteSets, TLC

(***************************************************************************)
(* Characters and character classes of Python's re module                  *)
(***************************************************************************)
UpperLetters == <<"A","B","C","D","E","F","G","H","I","J","K","L","M",
                  "N","O","P","Q","R","S","T","U","V","W","X","Y","Z">>

LowerLetters == <<"a","b","c","d","e","f","g","h","i","j","k","l","m",
                  "n","o","p","q","r","s","t","u","v","w","x","y","z">>

Digits == {"0","1","2","3","4","5","6","7","8","9"}

Range(f) == {f[i] : i \in DOMAIN f}

Max(S) == CHOOSE m \in S : \A n \in S : n <= m

Min(S) == CHOOSE m \in S : \A n \in S : m <= n

UpperSet == Range(UpperLetters)
LowerSet == Range(LowerLetters)
SpaceChars == {" ", "\t", "\n", "\r", "\f"}
WordChars == LowerSet \cup UpperSet \cup Digits \cup {"_"}
IdentStartChars == LowerSet \cup {"_"}
IdentChars == LowerSet \cup Digits \cup {"_", "."}

\* \s
IsSpace(c) == c \in SpaceChars

\* \d
IsDigit(c) == c \in Digits

\* \w
IsWord(c) == c \in WordChars

\* one character of str.lower()
LowerMap ==
    [c \in UpperSet |-> LowerLetters[CHOOSE i \in DOMAIN UpperLetters : UpperLetters[i] = c]]

LowerChar(c) == IF c \in UpperSet THEN LowerMap[c] ELSE c

\* str.lower()
Lower(text) == [i \in DOMAIN text |-> LowerChar(text[i])]

\* membership of a character in a class of the patterns: \s, \d, \w,
\* [a-z_] and [a-z0-9_.]
InClass(cls, c) ==
    CASE cls = "s"    -> IsSpace(c)
      [] cls = "d"    -> IsDigit(c)
      [] cls = "w"    -> IsWord(c)
      [] cls = "az_"  -> c \in IdentStartChars
      [] cls = "az09_." -> c \in IdentChars

\* the number of consecutive characters of class cls from position i on
RECURSIVE RunLen(_, _, _)
RunLen(text, i, cls) ==
    IF i > Len(text) \/ ~InClass(cls, text[i]) THEN 0
    ELSE 1 + RunLen(text, i + 1, cls)

\* \b at position i: between text[i-1] and text[i]
IsBoundary(text, i) ==
    LET before == i > 1 /\ i - 1 <= Len(text) /\ IsWord(text[i - 1])
        after  == i >= 1 /\ i <= Len(text) /\ IsWord(text[i])
    IN before # after

(***************************************************************************)
(* Pattern atoms: ^, \b, a literal, one character of a class, a greedy     *)
(* class+ , and the optional group (?:\.\w+)?                              *)
(***************************************************************************)
Bol        == [k |-> "bol",  c |-> "", s |-> <<>>]
WordB      == [k |-> "b",    c |-> "", s |-> <<>>]
Lit(str)   == [k |-> "lit",  c |-> "", s |-> str]
One(cls)   == [k |-> "one",  c |-> cls, s |-> <<>>]
Plus(cls)  == [k |-> "plus", c |-> cls, s |-> <<>>]
Star(cls)  == [k |-> "star", c |-> cls, s |-> <<>>]
OptDotWord == [k |-> "optdotw", c |-> "", s |-> <<>>]

\* re's match of atoms k.. of pat at position i: the position after the match,
\* 0 when there is none; greedy, backtracking into class+ and class*
RECURSIVE MatchFrom(_, _, _, _)
MatchFrom(pat, k, text, i) ==
    IF k > Len(pat) THEN i
    ELSE LET a == pat[k]
             rest(j) == MatchFrom(pat, k + 1, text, j)
         IN CASE a.k = "bol" -> IF i = 1 THEN rest(i) ELSE 0
              [] a.k = "b"   -> IF IsBoundary(text, i) THEN rest(i) ELSE 0
              [] a.k = "lit" ->
                   IF i + Len(a.s) - 1 <= Len(text)
                      /\ SubSeq(text, i, i + Len(a.s) - 1) = a.s
                   THEN rest(i + Len(a.s)) ELSE 0
              [] a.k = "one" ->
                   IF i <= Len(text) /\ InClass(a.c, text[i])
                   THEN rest(i + 1) ELSE 0
              [] a.k \in {"plus", "star"} ->
                   LET lo == IF a.k = "plus" THEN 1 ELSE 0
                       ok == {n \in lo..RunLen(text, i, a.c) : rest(i + n) # 0}
                   IN IF ok = {} THEN 0 ELSE rest(i + Max(ok))
              [] a.k = "optdotw" ->
                   LET n == IF i <= Len(text) /\ text[i] = "."
                            THEN RunLen(text, i + 1, "w") ELSE 0
                       ok == {m \in 1..n : rest(i + 1 + m) # 0}
                   IN IF ok # {} THEN rest(i + 1 + Max(ok)) ELSE rest(i)

\* re.match(pat, text): the position after the match at the start, 0 for None
ReMatch(pat, text) == MatchFrom(pat, 1, text, 1)

\* re.findall(pat, text): the non-overlapping matches left to right, each
\* given by its group, which starts at atom cap of pat (cap = 1: no group);
\* starts holds the positions where pat matches
RECURSIVE FindAllFrom(_, _, _, _, _)
FindAllFrom(pat, cap, text, starts, i) ==
    LET later == {j \in starts : j >= i}
    IN IF later = {} THEN <<>>
       ELSE LET b == Min(later)
                e == MatchFrom(pat, 1, text, b)
                p == MatchFrom(SubSeq(pat, 1, cap - 1), 1, text, b)
            IN <<SubSeq(text, p, e - 1)>> \o FindAllFrom(pat, cap, text, starts, e)

FindAll(pat, cap, text) ==
    FindAllFrom(pat, cap, text, {j \in DOMAIN text : MatchFrom(pat, 1, text, j) # 0}, 1)

(***************************************************************************)
(* str.split('\n'), '\n'.join, str.strip, str.startswith                   *)
(***************************************************************************)
\* the pieces between consecutive "\n" characters, empty pieces included
Split(text) ==
    LET nl == {i \in DOMAIN text : text[i] = "\n"}
        cut(k) == IF k = 0 THEN 0
                  ELSE IF k > Cardinality(nl) THEN Len(text) + 1
                  ELSE CHOOSE i \in nl : Cardinality({j \in nl : j < i}) = k - 1
    IN [k \in 1..(Cardinality(nl) + 1) |-> SubSeq(text, cut(k - 1) + 1, cut(k) - 1)]

RECURSIVE Join(_)
Join(lines) ==
    IF lines = <<>> THEN <<>>
    ELSE IF Len(lines) = 1 THEN lines[1]
    ELSE lines[1] \o <<"\n">> \o Join(Tail(lines))

RECURSIVE LStrip(_)
LStrip(text) ==
    IF text # <<>> /\ IsSpace(text[1]) THEN LStrip(Tail(text)) ELSE text

RECURSIVE RStrip(_)
RStrip(text) ==
    IF text # <<>> /\ IsSpace(text[Len(text)])
    THEN RStrip(SubSeq(text, 1, Len(text) - 1)) ELSE text

Strip(text) == RStrip(LStrip(text))

StartsWith(text, pre) ==
    Len(pre) <= Len(text) /\ SubSeq(text, 1, Len(pre)) = pre

(***************************************************************************)
(* extract_sas_from_logs (the same in both tools)                          *)
(***************************************************************************)
\* r'^s\s+\d+\s+'
LinePrefix == <<Bol, Lit(<<"s">>), Plus("s"), Plus("d"), Plus("s")>>

\* re.sub(r'^s\s+\d+\s+', '', line)
sas_part(line) ==
    LET e == ReMatch(LinePrefix, line)
    IN IF e = 0 THEN line ELSE SubSeq(line, e, Len(line))

\* the test of one line without the comment test of line 26
keeps_line_with_comments(line) ==
    /\ ReMatch(LinePrefix, line) # 0
    /\ Strip(sas_part(line)) # <<>>

\* the test of one line: matched, payload non-blank and no ;* comment
keeps_line(line) ==
    /\ ReMatch(LinePrefix, line) # 0
    /\ Strip(sas_part(line)) # <<>>
    /\ ~StartsWith(Strip(sas_part(line)), <<";", "*">>)

\* line 27 appending the line instead of its payload
sas_lines_whole(lines) == SelectSeq(lines, keeps_line)

RECURSIVE sas_lines_of(_)
sas_lines_of(lines) ==
    IF lines = <<>> THEN <<>>
    ELSE (IF keeps_line(lines[1]) THEN <<sas_part(lines[1])>> ELSE <<>>)
         \o sas_lines_of(Tail(lines))

extract_sas_from_logs(content) ==
    IF content = <<>> THEN <<>>
    ELSE Join(sas_lines_of(Split(content)))

(***************************************************************************)
(* Keywords of the patterns, as character sequences                        *)
(***************************************************************************)
kw_proc   == <<"p","r","o","c">>
kw_sql    == <<"s","q","l">>
kw_data   == <<"d","a","t","a">>
kw_macro  == <<"%","m","a","c","r","o">>
kw_join   == <<"j","o","i","n">>
kw_where  == <<"w","h","e","r","e">>
kw_from   == <<"f","r","o","m">>
kw_set    == <<"s","e","t">>
kw_merge  == <<"m","e","r","g","e">>
kw_create == <<"c","r","e","a","t","e">>
kw_table  == <<"t","a","b","l","e">>
kw_connect == <<"c","o","n","n","e","c","t">>
kw_to     == <<"t","o">>
kw_run    == <<"r","u","n">>
kw_quit   == <<"q","u","i","t">>
kw_end    == <<"e","n","d">>
kw_work   == <<"w","o","r","k">>

(***************************************************************************)
(* count_sas_patterns (batch tool)                                         *)
(***************************************************************************)
\* r'\bproc\s+sql\b'
re_proc_sql == <<WordB, Lit(kw_proc), Plus("s"), Lit(kw_sql), WordB>>
\* r'\bdata\s+\w+'
re_data_steps == <<WordB, Lit(kw_data), Plus("s"), Plus("w")>>
\* r'%macro\s+\w+'
re_macros == <<Lit(kw_macro), Plus("s"), Plus("w")>>
\* r'\bjoin\b'
re_joins == <<WordB, Lit(kw_join), WordB>>
\* r'\bwhere\b'
re_where == <<WordB, Lit(kw_where), WordB>>

ZeroPatterns ==
    [proc_sql |-> 0, data_steps |-> 0, macros |-> 0, joins |-> 0, where |-> 0]

count_sas_patterns(content) ==
    IF content = <<>> THEN ZeroPatterns
    ELSE LET content_lower == Lower(content)
         IN [proc_sql   |-> Len(FindAll(re_proc_sql, 1, content_lower)),
             data_steps |-> Len(FindAll(re_data_steps, 1, content_lower)),
             macros     |-> Len(FindAll(re_macros, 1, content_lower)),
             joins      |-> Len(FindAll(re_joins, 1, content_lower)),
             where      |-> Len(FindAll(re_where, 1, content_lower))]

(***************************************************************************)
(* get_datasets (batch tool)                                               *)
(***************************************************************************)
\* r'\b<kw>\s+(\w+)': the pattern without its optional .member part
re_kw_name_unqualified(kw) == <<WordB, Lit(kw), Plus("s"), Plus("w")>>

\* r'\b<kw>\s+(\w+(?:\.\w+)?)', the group at atom 4
re_kw_name(kw) == <<WordB, Lit(kw), Plus("s"), Plus("w"), OptDotWord>>
\* r'create\s+table\s+(\w+(?:\.\w+)?)', the group at atom 5
re_create_table ==
    <<Lit(kw_create), Plus("s"), Lit(kw_table), Plus("s"), Plus("w"), OptDotWord>>

\* the list at line 72 and the list at line 73
InputStopList  == {kw_run, kw_quit, kw_end, kw_work}
OutputStopList == {kw_run, kw_quit, kw_end}

\* the length floor of lines 72-73: len(x) > 2
MinLenBatch == 2

get_datasets_inputs(content) ==
    IF content = <<>> THEN {}
    ELSE LET content_lower == Lower(content)
             inputs == FindAll(re_kw_name(kw_from), 4, content_lower)
                       \o FindAll(re_kw_name(kw_set), 4, content_lower)
                       \o FindAll(re_kw_name(kw_join), 4, content_lower)
                       \o FindAll(re_kw_name(kw_merge), 4, content_lower)
         IN {x \in Range(inputs) : Len(x) > MinLenBatch /\ x \notin InputStopList}

get_datasets_outputs(content) ==
    IF content = <<>> THEN {}
    ELSE LET content_lower == Lower(content)
             outputs == FindAll(re_create_table, 5, content_lower)
                        \o FindAll(re_kw_name(kw_data), 4, content_lower)
         IN {x \in Range(outputs) : Len(x) > MinLenBatch /\ x \notin OutputStopList}

get_datasets(content) ==
    [inputs |-> get_datasets_inputs(content), outputs |-> get_datasets_outputs(content)]

(***************************************************************************)
(* analyze_sas_patterns and extract_datasets (single-archive tool)         *)
(***************************************************************************)
\* r'\bconnect\s+to\s+(\w+)', the group at atom 6
re_connect == <<WordB, Lit(kw_connect), Plus("s"), Lit(kw_to), Plus("s"), Plus("w")>>

analyze_sas_patterns(content) ==
    LET content_lower == Lower(content)
    IN [patterns |->
          [proc_sql      |-> Len(FindAll(re_proc_sql, 1, content_lower)),
           data_steps    |-> Len(FindAll(re_data_steps, 1, content_lower)),
           macros        |-> Len(FindAll(re_macros, 1, content_lower)),
           joins         |-> Len(FindAll(re_joins, 1, content_lower)),
           where_clauses |-> Len(FindAll(re_where, 1, content_lower))],
        connect_stmts |-> FindAll(re_connect, 6, content_lower)]

\* r'\b<kw>\s+([a-z_][a-z0-9_.]*)', the group at atom 4
re_kw_ident_star(kw) == <<WordB, Lit(kw), Plus("s"), One("az_"), Star("az09_.")>>
\* r'\b<kw>\s+([a-z_][a-z0-9_.]+)', the group at atom 4
re_kw_ident_plus(kw) == <<WordB, Lit(kw), Plus("s"), One("az_"), Plus("az09_.")>>
\* r'create\s+table\s+([a-z_][a-z0-9_.]*)', the group at atom 5
re_create_ident ==
    <<Lit(kw_create), Plus("s"), Lit(kw_table), Plus("s"), One("az_"), Star("az09_.")>>

sas_keywords ==
    { kw_work, <<"s","a","s","h","e","l","p">>, <<"s","a","s","u","s","e","r">>,
      <<"_","n","u","l","l","_">>, kw_run, kw_quit, kw_end,
      <<"t","h","e","n">>, <<"e","l","s","e">>, <<"d","o">>, <<"i","f">>,
      kw_where, <<"b","y">>, <<"a","n","d">>, <<"o","r">>,
      <<"s","e","l","e","c","t">>, kw_from, kw_join, <<"o","n">>,
      <<"a","s">>, <<"w","h","e","n">>, <<"c","a","s","e">> }

\* the length floor of lines 101-102: len(x.strip()) > 1
MinLenTool == 1

\* the comprehension of lines 101-102
clean_tokens(tokens) ==
    LET keep(t) == /\ Strip(t) # <<>>
                   /\ Strip(t) \notin sas_keywords
                   /\ Len(Strip(t)) > MinLenTool
    IN [i \in DOMAIN SelectSeq(tokens, keep) |-> Strip(SelectSeq(tokens, keep)[i])]

extract_datasets_inputs(content) ==
    LET content_lower == Lower(content)
    IN clean_tokens(FindAll(re_kw_ident_star(kw_from), 4, content_lower)
                    \o FindAll(re_kw_ident_star(kw_join), 4, content_lower)
                    \o FindAll(re_kw_ident_plus(kw_set), 4, content_lower))

extract_datasets_outputs(content) ==
    LET content_lower == Lower(content)
    IN clean_tokens(FindAll(re_create_ident, 5, content_lower)
                    \o FindAll(re_kw_ident_plus(kw_data), 4, content_lower))

extract_datasets(content) ==
    [inputs |-> extract_datasets_inputs(content),
     outputs |-> extract_datasets_outputs(content)]
(***************************************************************************)
(* The batch tool: names, the scratch directory, the inputs of a run       *)
(***************************************************************************)
EndsWith(text, suf) ==
    Len(suf) <= Len(text) /\ SubSeq(text, Len(text) - Len(suf) + 1, Len(text)) = suf

\* str.replace(old, new): every non-overlapping occurrence, left to right
RECURSIVE ReplaceFrom(_, _, _, _)
ReplaceFrom(text, i, old, new) ==
    IF i > Len(text) THEN <<>>
    ELSE IF i + Len(old) - 1 <= Len(text) /\ SubSeq(text, i, i + Len(old) - 1) = old
    THEN new \o ReplaceFrom(text, i + Len(old), old, new)
    ELSE <<text[i]>> \o ReplaceFrom(text, i + 1, old, new)

Replace(text, old, new) == ReplaceFrom(text, 1, old, new)

ext_egp == <<".","e","g","p">>
ext_sas == <<".","s","a","s">>
ext_log == <<".","l","o","g">>
name_project_xml == <<"p","r","o","j","e","c","t",".","x","m","l">>

\* f"temp_{filename.replace('.egp', '').replace(' ', '_').replace('-', '_')}"
temp_dir_of(filename) ==
    <<"t","e","m","p","_">>
    \o Replace(Replace(Replace(filename, ext_egp, <<>>), <<" ">>, <<"_">>), <<"-">>, <<"_">>)

\* filename.replace('.egp', '')
default_project_name(filename) == Replace(filename, ext_egp, <<>>)

\* file.lower().endswith('.sas') and file.lower().endswith('.log')
is_sas_file(f) == EndsWith(Lower(f.name), ext_sas)
is_log_file(f) == ~is_sas_file(f) /\ EndsWith(Lower(f.name), ext_log)

\* A member file: its name, whether open() and read() succeed, its text and,
\* for a manifest, what ET.parse makes of it
File(n, r, t, x) == [name |-> n, readable |-> r, text |-> t, xml |-> x]

sas_two   == File(<<"a",".","s","a","s">>, TRUE,
                  <<"d","a","t","a"," ","a",";","\n","s","e","t"," ","b",";">>, "none")
sas_one   == File(<<"c",".","s","a","s">>, TRUE,
                  <<"p","r","o","c"," ","s","q","l",";">>, "none")
sas_locked == File(<<"A",".","S","A","S">>, FALSE,
                  <<"d","a","t","a"," ","a",";">>, "none")
log_one   == File(<<"b",".","l","o","g">>, TRUE,
                  <<"s"," ","1"," ","d","a","t","a"," ","c",";","\n","N","O","T","E"," ","x">>,
                  "none")
log_three == File(<<"d",".","L","O","G">>, TRUE,
                  <<"s"," ","1"," ","d","a","t","a"," ","d",";","\n",
                    "s"," ","2"," ","s","e","t"," ","e",";","\n",
                    "s"," ","3"," ","r","u","n",";">>, "none")
log_notes == File(<<"e",".","l","o","g">>, TRUE, <<"N","O","T","E">>, "none")
xml_label == File(name_project_xml, TRUE, <<"S","a","l","e","s">>, "label")
xml_plain == File(name_project_xml, TRUE, <<>>, "nolabel")
xml_broken == File(name_project_xml, TRUE, <<>>, "malformed")
other_file == File(<<"r",".","t","x","t">>, TRUE, <<>>, "none")
stale_sas == File(<<"o","l","d",".","s","a","s">>, TRUE,
                  <<"d","a","t","a"," ","o","l","d",";">>, "none")
\* a code file that ends in the middle of a statement, and a log with a
\* comment line, a blank payload and a line without a number
sas_tail == File(<<"t",".","s","a","s">>, TRUE, <<"d","a","t","a">>, "none")
log_mixed == File(<<"m",".","l","o","g">>, TRUE,
                  <<"s"," ","1"," ",";","*"," ","c","\n","s"," ","2"," "," ","\n",
                    "s"," ","3"," ","j","o","i","n","\n","x">>, "none")

\* the member sets of the archives of a run
MemberSets ==
    { {}, {sas_two, xml_label, other_file}, {sas_locked, log_three, xml_broken},
      {sas_one, log_one, xml_plain}, {log_notes}, {sas_tail, sas_one, log_mixed} }

\* the file names of the input directory: two archives whose scratch names
\* coincide, one with a space in its name, and a file that is no archive
name_a_dash_b == <<"a","-","b",".","e","g","p">>
name_a_under_b == <<"a","_","b",".","e","g","p">>
name_c_space_d == <<"c"," ","d",".","e","g","p">>
other_name == <<"n",".","t","x","t">>

DirNames == {name_a_dash_b, name_a_under_b, name_c_space_d, other_name}

\* A file of the input directory: zip is what zipfile makes of it: "ok",
\* "bad" (ZipFile() raises) or "partial" (extractall() raises on the way)
Archive(n, z, ms) == [name |-> n, zip |-> z, members |-> ms]

Archives ==
    {Archive(name_a_dash_b, "ok", ms) : ms \in MemberSets}
    \cup {Archive(name_a_under_b, "ok", {sas_one, log_one, xml_plain}),
          Archive(name_c_space_d, "ok", {sas_one, log_one, xml_plain}),
          Archive(name_c_space_d, "bad", {}),
          Archive(other_name, "bad", {}),
          Archive(name_a_dash_b, "partial", {sas_two, xml_label})}

\* the most files the input directory holds
MaxArchives == 2

\* the listings of the input directory: no two files of it share a name
Listings ==
    {q \in UNION {[1..n -> Archives] : n \in 0..MaxArchives} :
        \A i \in DOMAIN q, j \in DOMAIN q : q[i].name = q[j].name => i = j}

NoDir == [exists |-> FALSE, files |-> {}]

ScratchNames == {temp_dir_of(n) : n \in DirNames}

VARIABLES
    dir_exists,   \* os.path.exists(egp_files_dir)
    listing,      \* the files of egp_files_dir
    scratch,      \* the scratch directories of the working directory
    pc,           \* where main() is
    egp_files,    \* glob.glob(...)
    idx,          \* the position of the for loop of main()
    cur,          \* the locals of analyze_egp_comprehensive
    results,      \* results
    totals,       \* total_sas_files, total_log_files, total_sas_lines, files_with_code
    log,          \* the lines printed
    failures,     \* the exceptions caught so far
    csv,          \* the rows of output_csv
    exit_code,    \* the exit status of the process, -1 while it runs
    text,         \* the input of the text functions
    tpc,          \* where the text pipeline is
    recovered,    \* extract_sas_from_logs(text)
    again,        \* extract_sas_from_logs(recovered)
    patterns,     \* count_sas_patterns and analyze_sas_patterns of the code
    datasets      \* get_datasets and extract_datasets of the code

batch_vars == <<dir_exists, listing, scratch, pc, egp_files, idx, cur, results,
                totals, log, failures, csv, exit_code>>
text_vars == <<text, tpc, recovered, again, patterns, datasets>>
vars == <<batch_vars, text_vars>>

NoCur == [temp_dir |-> <<>>]
NoPatterns == [batch |-> ZeroPatterns, tool |-> ZeroPatterns]
NoDatasets == [batch |-> [inputs |-> {}, outputs |-> {}],
               tool |-> [inputs |-> <<>>, outputs |-> <<>>]]

TextIdle ==
    /\ text = <<>> /\ tpc = "idle" /\ recovered = <<>> /\ again = <<>>
    /\ patterns = NoPatterns /\ datasets = NoDatasets

BatchIdle ==
    /\ dir_exists = FALSE /\ listing = <<>> /\ scratch = [d \in ScratchNames |-> NoDir]
    /\ pc = "idle" /\ egp_files = <<>> /\ idx = 1 /\ cur = NoCur /\ results = <<>>
    /\ totals = [sas_files |-> 0, log_files |-> 0, sas_lines |-> 0, with_code |-> 0]
    /\ log = <<>> /\ failures = {} /\ csv = <<>> /\ exit_code = -1

\* A run of the batch tool starts in any input directory, with or without a
\* scratch directory left in the working directory by an earlier run
Init ==
    /\ dir_exists \in BOOLEAN
    /\ listing \in Listings
    /\ ~dir_exists => listing = <<>>
    /\ \E left \in {NoDir, [exists |-> TRUE, files |-> {stale_sas}]} :
         scratch = [d \in ScratchNames |->
                      IF d = temp_dir_of(name_a_dash_b) THEN left ELSE NoDir]
    /\ pc = "start" /\ egp_files = <<>> /\ idx = 1 /\ cur = NoCur /\ results = <<>>
    /\ totals = [sas_files |-> 0, log_files |-> 0, sas_lines |-> 0, with_code |-> 0]
    /\ log = <<>> /\ failures = {} /\ csv = <<>> /\ exit_code = -1
    /\ TextIdle
(***************************************************************************)
(* analyze_egp_comprehensive and main of the batch tool                    *)
(***************************************************************************)
Line(m, i, f) == [msg |-> m, archive |-> i, file |-> f]
Failure(k, i, f) == [kind |-> k, archive |-> i, file |-> f]

\* the orders in which os.walk may list the files of S
SeqsOf(S) == {q \in [1..Cardinality(S) -> S] : Range(q) = S}

\* zip_ref.extractall(temp_dir) of the members ms into the directory d
extract_into(d, ms) ==
    IF ms = {} THEN d
    ELSE [exists |-> TRUE,
          files |-> {f \in d.files : \A m \in ms : m.name # f.name} \cup ms]

\* lines 115-122: the loop over sas_files, from file k on
RECURSIVE read_sas_files(_, _, _)
read_sas_files(files, k, acc) ==
    IF k > Len(files) THEN acc
    ELSE IF files[k].readable
    THEN read_sas_files(files, k + 1,
           [content |-> acc.content \o files[k].text \o <<"\n">>,
            lines   |-> acc.lines + Len(Split(files[k].text)),
            errors  |-> acc.errors])
    ELSE read_sas_files(files, k + 1,
           [acc EXCEPT !.errors = Append(acc.errors, files[k].name)])

\* lines 128-137 counting the lines of the log instead of line 135
RECURSIVE read_log_files_raw(_, _, _)
read_log_files_raw(files, k, acc) ==
    IF k > Len(files) THEN acc
    ELSE IF files[k].readable
    THEN LET extracted_sas == extract_sas_from_logs(files[k].text)
         IN IF extracted_sas # <<>>
            THEN read_log_files_raw(files, k + 1,
                   [content |-> acc.content \o extracted_sas \o <<"\n">>,
                    lines   |-> acc.lines + Len(Split(files[k].text)),
                    errors  |-> acc.errors])
            ELSE read_log_files_raw(files, k + 1, acc)
    ELSE read_log_files_raw(files, k + 1,
           [acc EXCEPT !.errors = Append(acc.errors, files[k].name)])

\* lines 128-137: the loop over log_files, from file k on
RECURSIVE read_log_files(_, _, _)
read_log_files(files, k, acc) ==
    IF k > Len(files) THEN acc
    ELSE IF files[k].readable
    THEN LET extracted_sas == extract_sas_from_logs(files[k].text)
         IN IF extracted_sas # <<>>
            THEN read_log_files(files, k + 1,
                   [content |-> acc.content \o extracted_sas \o <<"\n">>,
                    lines   |-> acc.lines + Len(Split(extracted_sas)),
                    errors  |-> acc.errors])
            ELSE read_log_files(files, k + 1, acc)
    ELSE read_log_files(files, k + 1,
           [acc EXCEPT !.errors = Append(acc.errors, files[k].name)])

NoRead == [content |-> <<>>, lines |-> 0, errors |-> <<>>]

\* line 191 with >= for >
project_type_ge(sas_lines, log_sas_lines) ==
    IF sas_lines >= log_sas_lines THEN "Code-heavy"
    ELSE IF log_sas_lines > 0 THEN "Query-based"
    ELSE "Visual-only"

\* line 191
project_type(sas_lines, log_sas_lines) ==
    IF sas_lines > log_sas_lines THEN "Code-heavy"
    ELSE IF log_sas_lines > 0 THEN "Query-based"
    ELSE "Visual-only"

\* line 190
has_sas_code(total_lines) == IF total_lines > 0 THEN "Yes" ELSE "No"

\* inputs[:10] and outputs[:10] of lines 188-189
ListLimit == 10

first_of(S) ==
    IF Cardinality(S) <= ListLimit THEN S
    ELSE CHOOSE T \in SUBSET S : Cardinality(T) = ListLimit

\* lines 198-209 of main(): the input directory and the glob
Start ==
    /\ pc = "start"
    /\ IF ~dir_exists
       THEN /\ log' = Append(log, Line("Directory not found", 0, <<>>))
            /\ pc' = "returned"
            /\ UNCHANGED egp_files
       ELSE LET found == SelectSeq(listing, LAMBDA a : EndsWith(a.name, ext_egp))
            IN IF found = <<>>
               THEN /\ log' = Append(log, Line("No EGP files found", 0, <<>>))
                    /\ pc' = "returned"
                    /\ UNCHANGED egp_files
               ELSE /\ log' = Append(log, Line("Found EGP files", 0, <<>>))
                    /\ egp_files' = found
                    /\ pc' = "loop"
    /\ UNCHANGED <<dir_exists, listing, scratch, idx, cur, results, totals,
                   failures, csv, exit_code, text_vars>>

\* line 217 and lines 79-83: the next archive of the loop, if any
Analyze ==
    /\ pc = "loop"
    /\ idx <= Len(egp_files)
    /\ cur' = [temp_dir |-> temp_dir_of(egp_files[idx].name)]
    /\ log' = Append(log, Line("Analyzing", idx, egp_files[idx].name))
    /\ pc' = "extract"
    /\ UNCHANGED <<dir_exists, listing, scratch, egp_files, idx, results, totals,
                   failures, csv, exit_code, text_vars>>

\* lines 85-90: the archive either unpacks, or the analysis returns None and
\* main() goes on to the next archive (lines 218-219)
ExtractFails(a, written) ==
    /\ scratch' = [scratch EXCEPT ![cur.temp_dir] = extract_into(@, written)]
    /\ log' = Append(log, Line("Error extracting", idx, a.name))
    /\ failures' = failures \cup {Failure("extract", idx, a.name)}
    /\ idx' = idx + 1
    /\ pc' = "loop"
    /\ UNCHANGED <<dir_exists, listing, egp_files, cur, results, totals, csv,
                   exit_code, text_vars>>

Extract ==
    /\ pc = "extract"
    /\ LET a == egp_files[idx]
       IN CASE a.zip = "ok" ->
                 /\ scratch' = [scratch EXCEPT ![cur.temp_dir] = extract_into(@, a.members)]
                 /\ pc' = "scan"
                 /\ UNCHANGED <<dir_exists, listing, egp_files, idx, cur, results,
                                totals, log, failures, csv, exit_code, text_vars>>
            [] a.zip = "bad" -> ExtractFails(a, {})
            [] a.zip = "partial" ->
                 \E written \in (SUBSET a.members) \ {{}} :
                     ExtractFails(a, written)

\* lines 92-145: the walk of the scratch directory and the two read loops
ScanRead ==
    /\ pc = "scan"
    /\ LET all_files == scratch[cur.temp_dir].files
       IN \E sas_files \in SeqsOf({f \in all_files : is_sas_file(f)}),
             log_files \in SeqsOf({f \in all_files : is_log_file(f)}) :
            LET sas == read_sas_files(sas_files, 1, NoRead)
                logs == read_log_files(log_files, 1, NoRead)
            IN /\ cur' = [temp_dir        |-> cur.temp_dir,
                          total_files     |-> Cardinality(all_files),
                          sas_files       |-> sas_files,
                          log_files       |-> log_files,
                          sas_content     |-> sas.content,
                          sas_lines       |-> sas.lines,
                          log_sas_content |-> logs.content,
                          log_sas_lines   |-> logs.lines,
                          all_sas_content |-> sas.content \o <<"\n">> \o logs.content,
                          total_lines     |-> sas.lines + logs.lines]
               /\ log' = log
                    \o <<Line("Total files", idx, <<>>), Line("SAS files", idx, <<>>),
                         Line("Log files", idx, <<>>)>>
                    \o [k \in DOMAIN sas.errors |-> Line("Error reading", idx, sas.errors[k])]
                    \o [k \in DOMAIN logs.errors |-> Line("Error reading", idx, logs.errors[k])]
                    \o <<Line("SAS lines from .sas files", idx, <<>>),
                         Line("SAS lines from .log files", idx, <<>>),
                         Line("Total SAS lines", idx, <<>>)>>
               /\ failures' = failures
                    \cup {Failure("read", idx, n) : n \in Range(sas.errors) \cup Range(logs.errors)}
    /\ pc' = "manifest"
    /\ UNCHANGED <<dir_exists, listing, scratch, egp_files, idx, results, totals,
                   csv, exit_code, text_vars>>

\* lines 147-160: the project name, from project.xml when it parses
Manifest ==
    /\ pc = "manifest"
    /\ LET filename == egp_files[idx].name
           found == {f \in scratch[cur.temp_dir].files : f.name = name_project_xml}
           parses(f) == f.readable /\ f.xml # "malformed"
       IN /\ cur' = [k \in DOMAIN cur \cup {"project_name"} |->
                       IF k # "project_name" THEN cur[k]
                       ELSE IF \E f \in found : parses(f) /\ f.xml = "label"
                            THEN (CHOOSE f \in found : TRUE).text
                            ELSE default_project_name(filename)]
          /\ failures' = failures
               \cup {Failure("manifest", idx, f.name) : f \in {g \in found : ~parses(g)}}
    /\ pc' = "cleanup"
    /\ UNCHANGED <<dir_exists, listing, scratch, egp_files, idx, results, totals,
                   log, csv, exit_code, text_vars>>

\* lines 172-192
result_of(filename, c, pats, ds) ==
    [filename             |-> filename,
     project_name         |-> c.project_name,
     total_files          |-> c.total_files,
     sas_files            |-> Len(c.sas_files),
     log_files            |-> Len(c.log_files),
     sas_lines_from_files |-> c.sas_lines,
     sas_lines_from_logs  |-> c.log_sas_lines,
     total_sas_lines      |-> c.total_lines,
     proc_sql             |-> pats.proc_sql,
     data_steps           |-> pats.data_steps,
     macros               |-> pats.macros,
     joins                |-> pats.joins,
     where_clauses        |-> pats.where,
     input_datasets       |-> Cardinality(ds.inputs),
     output_datasets      |-> Cardinality(ds.outputs),
     input_list           |-> first_of(ds.inputs),
     output_list          |-> first_of(ds.outputs),
     has_sas_code         |-> has_sas_code(c.total_lines),
     project_type         |-> project_type(c.sas_lines, c.log_sas_lines)]

\* lines 162-192 and 219-225: the patterns, shutil.rmtree inside try/except:
\* pass, the result, and its row and totals in main(). rmtree of a directory
\* that exists either removes it or raises and leaves it; rmtree of a missing
\* directory raises and changes nothing; the except clause swallows what
\* rmtree raises
Finish ==
    /\ pc = "cleanup"
    /\ LET result == result_of(egp_files[idx].name, cur,
                               count_sas_patterns(cur.all_sas_content),
                               get_datasets(cur.all_sas_content))
       IN /\ results' = Append(results, result)
          /\ totals' = [sas_files |-> totals.sas_files + result.sas_files,
                        log_files |-> totals.log_files + result.log_files,
                        sas_lines |-> totals.sas_lines + result.total_sas_lines,
                        with_code |-> totals.with_code
                                        + (IF result.total_sas_lines > 0 THEN 1 ELSE 0)]
    /\ \/ /\ scratch[cur.temp_dir].exists
          /\ scratch' = [scratch EXCEPT ![cur.temp_dir] = NoDir]
          /\ UNCHANGED failures
       \/ /\ failures' = failures \cup {Failure("cleanup", idx, cur.temp_dir)}
          /\ UNCHANGED scratch
    /\ idx' = idx + 1
    /\ pc' = "loop"
    /\ UNCHANGED <<dir_exists, listing, egp_files, cur, log, csv, exit_code, text_vars>>

\* lines 227-240: the CSV file and the summary, after the last archive
Report ==
    /\ pc = "loop"
    /\ idx > Len(egp_files)
    /\ IF results # <<>>
       THEN /\ csv' = results
            /\ log' = log \o <<Line("Results saved", 0, <<>>), Line("Summary", 0, <<>>)>>
       ELSE UNCHANGED <<csv, log>>
    /\ pc' = "returned"
    /\ UNCHANGED <<dir_exists, listing, scratch, egp_files, idx, cur, results,
                   totals, failures, exit_code, text_vars>>

\* lines 242-243: main() has returned and the interpreter exits
Exit ==
    /\ pc = "returned"
    /\ exit_code' = 0
    /\ pc' = "done"
    /\ UNCHANGED <<dir_exists, listing, scratch, egp_files, idx, cur, results,
                   totals, log, failures, csv, text_vars>>

Next == Start \/ Analyze \/ Extract \/ ScanRead \/ Manifest \/ Finish \/ Report \/ Exit

Spec == Init /\ [][Next]_vars

(***************************************************************************)
(* Properties of the batch tool                                            *)
(***************************************************************************)
\* the scratch directory of the archive whose analysis returned last
LastScratch == scratch[temp_dir_of(egp_files[idx - 1].name)]

\* the analysis of archive idx - 1 has just returned to the loop of main()
JustReturned == pc = "loop" /\ idx > 1

\* C1: whenever analyze_egp_comprehensive returns, by its return None after a
\* failed extraction or by its normal return, the scratch directory of the
\* archive it analyzed does not exist.
C1_ScratchGoneOnReturn == JustReturned => ~LastScratch.exists

\* the sum of the second components of a set of pairs
RECURSIVE SumOf(_)
SumOf(pairs) ==
    IF pairs = {} THEN 0
    ELSE LET p == CHOOSE q \in pairs : TRUE IN p[2] + SumOf(pairs \ {p})

\* the sum of g over the records of a sequence
RECURSIVE SumField(_, _)
SumField(rows, field) ==
    IF rows = <<>> THEN 0 ELSE rows[1][field] + SumField(Tail(rows), field)

Names(archives) == [i \in DOMAIN archives |-> archives[i].name]

Unpacked == SelectSeq(egp_files, LAMBDA a : a.zip = "ok")

\* the run is over: main() has returned
RunOver == pc \in {"returned", "done"}

\* what C2 asks of the state: at the end of a run that found archives, every
\* archive was handed to the analysis, in order; there is one result per
\* archive that unpacked and none for the others, whose totals are those of
\* the results alone; and when the read loops are done, only files that could
\* be read have added lines
C2_State ==
    /\ (RunOver /\ egp_files # <<>>) =>
          /\ idx = Len(egp_files) + 1
          /\ [i \in DOMAIN SelectSeq(log, LAMBDA l : l.msg = "Analyzing") |->
                 SelectSeq(log, LAMBDA l : l.msg = "Analyzing")[i].file] = Names(egp_files)
          /\ [i \in DOMAIN results |-> results[i].filename] = Names(Unpacked)
          /\ totals.sas_files = SumField(results, "sas_files")
          /\ totals.log_files = SumField(results, "log_files")
          /\ totals.sas_lines = SumField(results, "total_sas_lines")
          /\ csv = results
    /\ pc = "manifest" =>
          LET files == scratch[cur.temp_dir].files
          IN /\ cur.sas_lines =
                  SumOf({<<f, Len(Split(f.text))>> : f \in {g \in files : is_sas_file(g) /\ g.readable}})
             /\ cur.log_sas_lines =
                  SumOf({<<f, Len(Split(extract_sas_from_logs(f.text)))>> :
                           f \in {g \in files : is_log_file(g) /\ g.readable
                                                /\ extract_sas_from_logs(g.text) # <<>>}})

\* the steps main() still has to take: every step of a run lowers it
Rank ==
    CASE pc = "start"    -> 6 * Len(listing) + 6
      [] pc = "loop"     -> 6 * (Len(egp_files) + 1 - idx) + 5
      [] pc = "extract"  -> 6 * (Len(egp_files) + 1 - idx) + 4
      [] pc = "scan"     -> 6 * (Len(egp_files) + 1 - idx) + 3
      [] pc = "manifest" -> 6 * (Len(egp_files) + 1 - idx) + 2
      [] pc = "cleanup"  -> 6 * (Len(egp_files) + 1 - idx) + 1
      [] pc = "returned" -> 1
      [] OTHER           -> 0

\* the statement main() is at can be executed: the loop has an archive to
\* work on, and zipfile either unpacks it or raises
CanStep ==
    CASE pc \in {"start", "loop", "returned"} -> TRUE
      [] pc = "extract" ->
           /\ idx \in DOMAIN egp_files
           /\ egp_files[idx].zip \in {"ok", "bad", "partial"}
           /\ egp_files[idx].zip = "partial" => egp_files[idx].members # {}
      [] pc \in {"scan", "manifest", "cleanup"} -> idx \in DOMAIN egp_files
      [] OTHER -> FALSE

\* the scratch directory of the archive being analyzed was used by no
\* archive before it but archive j
OnlyUsedBy(j) ==
    /\ temp_dir_of(egp_files[j].name) = cur.temp_dir
    /\ \A k \in 1..(idx - 1) :
          temp_dir_of(egp_files[k].name) = cur.temp_dir => k = j

\* what the files of an archive that failed to unpack add to the analysis of
\* a later archive: nothing. When the walk is over, no file counted for the
\* archive being analyzed is one that only the failed archive brought
FailedArchiveAddsNothing ==
    pc = "manifest" =>
        \A j \in 1..(idx - 1) :
            (egp_files[j].zip # "ok" /\ OnlyUsedBy(j)) =>
                (scratch[cur.temp_dir].files \cap egp_files[j].members)
                    \subseteq egp_files[idx].members

\* C2: in a batch run the failure of an archive (a corrupt zip, a member file
\* that cannot be read, a manifest that does not parse) never aborts the run:
\* the archives after it are analyzed, the failing unit adds no data, and the
\* run reaches its end with one result per archive that unpacked.
C2_BatchSurvivesFailures ==
    /\ C2_State
    /\ pc # "done" => CanStep
    /\ FailedArchiveAddsNothing

\* the part of C2 that is about the run and not about its data: the state
\* of the run is as C2 says, main() can always take its next step before the
\* end, and every step brings the end nearer
RunReachesItsEnd ==
    /\ []C2_State
    /\ [](pc # "done" => CanStep)
    /\ [][Rank' < Rank /\ Rank' >= 0]_vars

\* a finished run in which an archive failed to unpack, a later one was
\* analyzed, a member file could not be read and a manifest did not parse
C2_Witness ==
    /\ pc = "done"
    /\ \E i \in DOMAIN egp_files, j \in DOMAIN egp_files :
          i < j /\ egp_files[i].zip # "ok" /\ egp_files[j].zip = "ok"
    /\ \E f \in failures : f.kind = "read"
    /\ \E f \in failures : f.kind = "manifest"
    /\ results # <<>>

\* the run met a setup error: no input directory, or no file of it is an archive
SetupError ==
    \/ ~dir_exists
    \/ \A i \in DOMAIN listing : ~EndsWith(listing[i].name, ext_egp)

\* C3: a setup error (the input directory is missing, or no archive matches
\* the extension filter) is fatal: no archive is analyzed, a message is
\* printed, and the process ends with a non-zero exit status.
C3_SetupErrorIsFatal ==
    (pc = "done" /\ SetupError) =>
        /\ \A k \in DOMAIN log : log[k].msg # "Analyzing"
        /\ log # <<>>
        /\ exit_code # 0

\* the lines the tool prints when nothing went wrong
InfoMsgs ==
    {"Found EGP files", "Analyzing", "Total files", "SAS files", "Log files",
     "SAS lines from .sas files", "SAS lines from .log files", "Total SAS lines",
     "Results saved", "Summary"}

\* C4: every failure recovered during a run (an extraction failure, a member
\* file that cannot be read, a manifest that does not parse, a scratch
\* directory that cannot be removed) has a line of its own in the output.
C4_EveryFailureLogged ==
    \A f \in failures :
        \E k \in DOMAIN log :
            /\ log[k].msg \notin InfoMsgs
            /\ log[k].archive = f.archive
            /\ log[k].file = f.file

\* C5: when the walk of the scratch directory starts, the directory holds the
\* members of the archive just unpacked and nothing else: whatever a
\* directory of that name held before was removed first.
C5_NoStaleFiles ==
    pc = "scan" => scratch[cur.temp_dir].files = egp_files[idx].members

ProjectTypes == {"Code-heavy", "Query-based", "Visual-only"}

AuthoredUnits(c) ==
    LET fs == SelectSeq(c.sas_files, LAMBDA f : f.readable)
    IN [k \in DOMAIN fs |-> fs[k].text]

RecoveredUnits(c) ==
    LET fs == SelectSeq(c.log_files,
                        LAMBDA f : f.readable /\ extract_sas_from_logs(f.text) # <<>>)
    IN [k \in DOMAIN fs |-> extract_sas_from_logs(fs[k].text)]

CodeUnits(c) == AuthoredUnits(c) \o RecoveredUnits(c)

\* the sum of one pattern count over the units, each classified on its own
RECURSIVE SumPatterns(_, _)
SumPatterns(units, field) ==
    IF units = <<>> THEN 0
    ELSE count_sas_patterns(units[1])[field] + SumPatterns(Tail(units), field)

\* the union of the inputs or outputs of the units, each extracted on its own
UnionDatasets(units, side) ==
    UNION {get_datasets(units[k])[side] : k \in DOMAIN units}

\* the analysis of an archive has just returned a result, the last row
RowReturned == pc = "loop" /\ "sas_files" \in DOMAIN cur

\* C11: the pattern counts of the row of an archive are the sums, field by
\* field, and its input and output datasets are the unions, of what the
\* classifier and the extractor give for each code unit of the archive on
\* its own: no unit is left out and nothing arises that no unit shows.
C11_SumAndUnionOfUnits ==
    RowReturned =>
        LET r == results[Len(results)]
            units == CodeUnits(cur)
        IN /\ r.proc_sql = SumPatterns(units, "proc_sql")
           /\ r.data_steps = SumPatterns(units, "data_steps")
           /\ r.macros = SumPatterns(units, "macros")
           /\ r.joins = SumPatterns(units, "joins")
           /\ r.where_clauses = SumPatterns(units, "where")
           /\ r.input_list = UnionDatasets(units, "inputs")
           /\ r.output_list = UnionDatasets(units, "outputs")
           /\ r.input_datasets = Cardinality(UnionDatasets(units, "inputs"))
           /\ r.output_datasets = Cardinality(UnionDatasets(units, "outputs"))
\* the list sas_lines that extract_sas_from_logs has built when it returns:
\* the lines it emits
EmittedLines(content) ==
    IF content = <<>> THEN <<>> ELSE sas_lines_of(Split(content))

\* the lines emitted for a log file; none for a log that cannot be read
EmittedFor(f) == IF f.readable THEN Len(EmittedLines(f.text)) ELSE 0

RECURSIVE SumEmitted(_)
SumEmitted(files) ==
    IF files = <<>> THEN 0 ELSE EmittedFor(files[1]) + SumEmitted(Tail(files))

RECURSIVE Concat(_)
Concat(pieces) ==
    IF pieces = <<>> THEN <<>> ELSE pieces[1] \o Concat(Tail(pieces))

TextsOf(pieces, n) == {Concat(q) : q \in UNION {[1..m -> pieces] : m \in 0..n}}

\* the pieces of the log texts: a line-number prefix, its parts, a line
\* break, the comment marker and a payload character
LogPieces ==
    { <<"s"," ","1"," ">>, <<"s"," ">>, <<"1">>, <<" ">>, <<"\n">>, <<";","*">>, <<"x">> }

\* the most pieces of a log text
MaxLogPieces == 5

\* the pieces of the code texts: the clause keywords, names and separators
CodePieces ==
    { <<"f","r","o","m"," ">>, <<"s","e","t"," ">>, <<"j","o","i","n"," ">>,
      <<"m","e","r","g","e"," ">>, <<"D","a","t","a"," ">>,
      <<"c","r","e","a","t","e"," ","t","a","b","l","e"," ">>,
      <<"w","o","r","k">>, <<"a","b">>, <<"a","b","c">>, <<"w","h","e","r","e">>,
      <<"r","u","n">>, <<"l","i","b",".","t">>, <<";"," ">> }

\* the most pieces of a code text
MaxCodePieces == 3

\* the lines of the transcripts of the scenario runs
line_data_step ==
    <<"s"," ","1","0"," ","d","a","t","a"," ","w","o","r","k",".","o","u","t",";"," ",
      "s","e","t"," ","w","o","r","k",".","i","n",";"," ","r","u","n",";">>
line_comment == <<"s"," ","1","1"," ",";","*"," ","c","o","m","m","e","n","t">>
line_note == <<"N","O","T","E",":"," ","d","o","n","e">>
line_sql ==
    <<"s"," ","1","2"," ","p","r","o","c"," ","s","q","l",";"," ",
      "c","r","e","a","t","e"," ","t","a","b","l","e"," ","r","e","s"," ","a","s"," ",
      "s","e","l","e","c","t"," ","*"," ","f","r","o","m"," ","r","a","w","_","s"," ",
      "j","o","i","n"," ","l","k",";"," ","q","u","i","t",";">>
line_upper == <<"S"," ","1","3"," ","D","A","T","A"," ","B",";"," ","S","E","T"," ","A",";">>
line_merge ==
    <<"s"," ","1","4"," ","D","A","T","A"," ","T","w","o",".","X",";"," ",
      "m","e","r","g","e"," ","p"," ","q",";">>

ScenarioLines ==
    {line_data_step, line_comment, line_note, line_sql, line_upper, line_merge}

\* the most lines of a transcript
MaxScenarioLines == 2

ScenarioTexts ==
    {Join(q) : q \in UNION {[1..m -> ScenarioLines] : m \in 1..MaxScenarioLines}}

\* extract_sas_from_logs(log_content)
Recover ==
    /\ tpc = "log"
    /\ recovered' = extract_sas_from_logs(text)
    /\ tpc' = "recovered"
    /\ UNCHANGED <<batch_vars, text, again, patterns, datasets>>

\* extract_sas_from_logs applied to what it returned
RecoverAgain ==
    /\ tpc = "recovered"
    /\ again' = extract_sas_from_logs(recovered)
    /\ tpc' = "again"
    /\ UNCHANGED <<batch_vars, text, recovered, patterns, datasets>>

\* count_sas_patterns(extracted_sas) and analyze_sas_patterns(extracted_sas)
Classify ==
    /\ tpc = "recovered"
    /\ patterns' = [batch |-> count_sas_patterns(recovered),
                    tool  |-> analyze_sas_patterns(recovered).patterns]
    /\ tpc' = "classified"
    /\ UNCHANGED <<batch_vars, text, recovered, again, datasets>>

\* get_datasets(extracted_sas) and extract_datasets(extracted_sas)
Datasets ==
    /\ tpc = "classified"
    /\ datasets' = [batch |-> get_datasets(recovered), tool |-> extract_datasets(recovered)]
    /\ tpc' = "extracted"
    /\ UNCHANGED <<batch_vars, text, recovered, again, patterns>>

\* get_datasets(content) and extract_datasets(content) of a code text
CodeDatasets ==
    /\ tpc = "code"
    /\ datasets' = [batch |-> get_datasets(text), tool |-> extract_datasets(text)]
    /\ tpc' = "code_done"
    /\ UNCHANGED <<batch_vars, text, recovered, again, patterns>>

TextInit(texts, start) ==
    /\ BatchIdle
    /\ text \in texts /\ tpc = start /\ recovered = <<>> /\ again = <<>>
    /\ patterns = NoPatterns /\ datasets = NoDatasets

\* the recoverer, twice in a row, on every log text
SpecLog ==
    TextInit(TextsOf(LogPieces, MaxLogPieces), "log") /\ [][Recover \/ RecoverAgain]_vars

\* the recoverer, the classifier and the extractor on the transcripts
SpecScenario ==
    TextInit(ScenarioTexts, "log") /\ [][Recover \/ Classify \/ Datasets]_vars

\* the extractors on every code text
SpecCode ==
    TextInit(TextsOf(CodePieces, MaxCodePieces), "code") /\ [][CodeDatasets]_vars
(***************************************************************************)
(* Properties of the text functions                                        *)
(***************************************************************************)
\* the keyword and noise denylist of the Dataset Reference Extractor
Denylist ==
    { <<"w","o","r","k">>, <<"r","u","n">>, <<"q","u","i","t">>, <<"e","n","d">>,
      <<"t","h","e","n">>, <<"e","l","s","e">>, <<"d","o">>, <<"i","f">>,
      <<"w","h","e","r","e">>, <<"b","y">>, <<"a","n","d">>, <<"o","r">>,
      <<"s","e","l","e","c","t">>, <<"f","r","o","m">>, <<"j","o","i","n">>,
      <<"o","n">>, <<"a","s">>, <<"w","h","e","n">>, <<"c","a","s","e">>,
      <<"s","a","s","h","e","l","p">>, <<"s","a","s","u","s","e","r">>,
      <<"_","n","u","l","l","_">> }

Admissible(tok) == tok \notin Denylist /\ Len(tok) > 2

\* C7: no token returned by get_datasets or by extract_datasets, as an input
\* or as an output, is on the denylist or has two characters or fewer.
C7_NoDenylistedOrShort ==
    tpc = "code_done" =>
        \A tok \in datasets.batch.inputs \cup datasets.batch.outputs
                   \cup Range(datasets.tool.inputs) \cup Range(datasets.tool.outputs) :
            Admissible(tok)

\* The shape "s, whitespace, digits, whitespace" read off a line without the
\* pattern: n is the length of such a prefix of the line
PrefixOfLength(line, n) ==
    \E i \in 2..n, j \in 2..n :
        /\ i < j /\ j < n /\ n <= Len(line)
        /\ line[1] = "s"
        /\ \A k \in 2..i : line[k] \in SpaceChars
        /\ \A k \in (i + 1)..j : line[k] \in Digits
        /\ \A k \in (j + 1)..n : line[k] \in SpaceChars

CarriesPrefix(line) == \E n \in 1..Len(line) : PrefixOfLength(line, n)

\* the text after the whole prefix of a line that carries one
Payload(line) ==
    LET n == Max({m \in 1..Len(line) : PrefixOfLength(line, m)})
    IN [k \in 1..(Len(line) - n) |-> line[n + k]]

\* a payload with nothing but whitespace, or one that starts with ;* once
\* the whitespace before it is skipped
Blank(t) == \A k \in DOMAIN t : t[k] \in SpaceChars

IsComment(t) ==
    \E k \in DOMAIN t :
        /\ \A m \in 1..(k - 1) : t[m] \in SpaceChars
        /\ t[k] = ";" /\ k < Len(t) /\ t[k + 1] = "*"

IsCodeLine(line) ==
    CarriesPrefix(line) /\ ~Blank(Payload(line)) /\ ~IsComment(Payload(line))

\* the payloads of the code lines of a text, in the order of the lines
PayloadsOf(t) ==
    LET kept == SelectSeq(Split(t), IsCodeLine)
    IN [k \in DOMAIN kept |-> Payload(kept[k])]

\* the lines of a text, none for the empty text
LinesOf(t) == IF t = <<>> THEN <<>> ELSE Split(t)

\* C8 as stated: no line returned by extract_sas_from_logs carries the
\* line-number prefix, and extract_sas_from_logs returns what it returned
\* unchanged when applied to it.
C8_NoPrefixAndIdempotent ==
    tpc = "again" =>
        /\ \A k \in DOMAIN LinesOf(recovered) : ~CarriesPrefix(LinesOf(recovered)[k])
        /\ again = recovered

\* two prefixes in a row at the start of a line
CarriesTwoPrefixes(line) == CarriesPrefix(line) /\ CarriesPrefix(Payload(line))

\* C8 amended: every line returned by extract_sas_from_logs is a line of the
\* input less its one leading prefix, so a returned line carries a prefix only
\* where a line of the input carried two in a row; applied to what it
\* returned, extract_sas_from_logs keeps the payloads of exactly those lines
\* and drops every other line, so it returns its input unchanged only when
\* that is empty.
C8_OnePrefixStripped ==
    tpc = "again" =>
        /\ \A k \in DOMAIN LinesOf(recovered) :
              \E m \in DOMAIN Split(text) :
                  /\ CarriesPrefix(Split(text)[m])
                  /\ Payload(Split(text)[m]) = LinesOf(recovered)[k]
                  /\ CarriesPrefix(LinesOf(recovered)[k]) <=> CarriesTwoPrefixes(Split(text)[m])
        /\ Len(LinesOf(again))
             <= Cardinality({k \in DOMAIN LinesOf(recovered) : CarriesPrefix(LinesOf(recovered)[k])})
        /\ (\A k \in DOMAIN LinesOf(recovered) : ~CarriesPrefix(LinesOf(recovered)[k]))
             => again = <<>>
        /\ again = recovered <=> recovered = <<>>

\* a text with two prefixes in a row, whose payload survives both passes
C8_Witness ==
    /\ tpc = "again"
    /\ \E k \in DOMAIN LinesOf(recovered) : CarriesPrefix(LinesOf(recovered)[k])
    /\ again # <<>>
    /\ again # recovered

\* C9: extract_sas_from_logs returns the payloads of the lines that carry the
\* prefix and whose payload is neither blank nor a ;* comment, joined by line
\* breaks in the order of the lines; every other line is dropped, the digits
\* may be of any number, and the empty text gives the empty text.
C9_RecoversPayloads ==
    tpc # "log" =>
        /\ recovered = Join(PayloadsOf(text))
        /\ text = <<>> => recovered = <<>>

\* a text of which two lines with different payloads are returned, in the
\* order of the text
C9_Witness ==
    /\ tpc = "recovered"
    /\ Len(LinesOf(recovered)) = 2
    /\ LinesOf(recovered)[1] = <<"x">>
    /\ LinesOf(recovered)[2] = <<"1">>

the_scenario == Join(<<line_data_step, line_comment>>)

recovered_line ==
    <<"d","a","t","a"," ","w","o","r","k",".","o","u","t",";"," ",
      "s","e","t"," ","w","o","r","k",".","i","n",";"," ","r","u","n",";">>

work_in == <<"w","o","r","k",".","i","n">>
work_out == <<"w","o","r","k",".","o","u","t">>

\* C10: of the two lines 's 10 data work.out; set work.in; run;' and
\* 's 11 ;* comment' the recoverer returns the one line
\* 'data work.out; set work.in; run;', in which the classifiers count one
\* data step and the extractors find the input work.in and the output
\* work.out.
C10_Scenario ==
    (text = the_scenario /\ tpc = "extracted") =>
        /\ recovered = recovered_line
        /\ patterns.batch.data_steps = 1
        /\ patterns.tool.data_steps = 1
        /\ datasets.batch.inputs = {work_in}
        /\ datasets.batch.outputs = {work_out}
        /\ Range(datasets.tool.inputs) = {work_in}
        /\ Range(datasets.tool.outputs) = {work_out}

\* the scenario has run through the three stages
C10_Witness == text = the_scenario /\ tpc = "extracted" /\ recovered # <<>>

====
